---- MODULE Spec2Model ----
(***************************************************************************)
(* Data path of osfs: osfs_read / osfs_write of the single-block file      *)
(* (lab4/file.c) and of the multi-block file (lab4_bonus/file.c).          *)
(* One file, one block arena, one caller issuing read and write calls.     *)
(***************************************************************************)
EXTENDS Integers, Sequences, FiniteSets, TLC

\* ---------------------------------------------------------------- sizes
\* Block size in bytes (osfs.h; scaled down from 4096).
BLOCK_SIZE == 6
\* Direct block pointers per file in the multi-block variant.
MAX_BLOCKS_PER_FILE == 5
\* Data blocks of the arena that can be handed out: 1..DATA_BLOCK_COUNT
\* (physical block 0 is reserved).
DATA_BLOCK_COUNT == 4
\* Number of values of the type of block_index (uint32_t, scaled down).
UINT32_RANGE == 8
\* Calls issued by the caller in one behaviour.
MaxCalls == 2

ENOSPC == -28
EFAULT == -14

Min(a, b) == IF a < b THEN a ELSE b
Max(a, b) == IF a > b THEN a ELSE b

InBlock == 0 .. (BLOCK_SIZE - 1)
Slots == 0 .. (MAX_BLOCKS_PER_FILE - 1)
Phys == 0 .. DATA_BLOCK_COUNT
CAPACITY == MAX_BLOCKS_PER_FILE * BLOCK_SIZE

VARIABLES
    variant,      \* "single" (lab4) or "multi" (lab4_bonus)
    blocks,       \* osfs_inode->blocks[]            (multi)
    i_block,      \* osfs_inode->i_block             (single)
    i_blocks,     \* osfs_inode->i_blocks
    i_size,       \* osfs_inode->i_size
    data_blocks,  \* sb_info->data_blocks, per physical block
    block_bitmap, \* physical blocks in use (allocator state)
    ppos,         \* *ppos as the handler leaves it
    touches,      \* number of mtime/ctime/dirty updates so far
    calls,        \* number of calls issued
    last,         \* record of the last call
    twin,         \* the multi-block code run with one block per file,
                  \* in step with the single-block code
    conc          \* two files written concurrently, segment by segment

vars == <<variant, blocks, i_block, i_blocks, i_size, data_blocks,
          block_bitmap, ppos, touches, calls, last, twin, conc>>

\* ------------------------------------------------------------ user buffers
\* Byte i of the caller's write buffer with pattern tag.
UserBuf(tag, i) == ((i + tag) % 3) + 1

\* Content of a block nobody has zeroed: stale bytes.
Garbage == [j \in InBlock |-> 255]
ZeroBlock == [j \in InBlock |-> 0]

\* ------------------------------------------------------------ allocator
\* osfs_alloc_data_block: lowest-numbered free data block, 0 when none
\* (the caller sees a non-zero return code in that case).
osfs_alloc_data_block(bitmap) ==
    LET free == (1 .. DATA_BLOCK_COUNT) \ bitmap
    IN  IF free = {} THEN 0
        ELSE CHOOSE p \in free : \A q \in free : p <= q

\* ------------------------------------------------------------ helpers
\* uint32_t block_index = *ppos / BLOCK_SIZE
BlockIndex(pos) == (pos \div BLOCK_SIZE) % UINT32_RANGE

\* uint32_t offset_in_block = *ppos % BLOCK_SIZE
OffsetInBlock(pos) == pos % BLOCK_SIZE

\* A segment is one byte long.
CopyLen_one_byte(pos, len) == Min(1, len)

\* size_t copy_len = BLOCK_SIZE - offset_in_block; if (copy_len > len) copy_len = len
CopyLen(pos, len) == Min(BLOCK_SIZE - OffsetInBlock(pos), len)

\* The block is left as the allocator handed it out.
memset_skipped(data, phys) == data

\* memset(data_blocks + phys * BLOCK_SIZE, 0, BLOCK_SIZE)
memset(data, phys) == [data EXCEPT ![phys] = ZeroBlock]

\* Bytes of a copy of n bytes from user offset bufp that can be accessed,
\* when the user buffer is accessible for its first acc bytes only.
Accessible(bufp, n, acc) == Min(n, Max(0, acc - bufp))

\* The source pointer is not advanced between segments (buf += copy_len lost).
copy_from_user_same_source(data, phys, off, tag, bufp, n, acc) ==
    LET ok == Accessible(bufp, n, acc)
    IN  [data EXCEPT ![phys] =
            [j \in InBlock |->
                IF j >= off /\ j < off + ok THEN UserBuf(tag, j - off)
                ELSE IF j >= off + ok /\ j < off + n THEN 0
                ELSE @[j]]]

\* copy_from_user(data_block, buf, copy_len): the accessible prefix is
\* copied, the rest of the destination is zeroed; the arena afterwards.
copy_from_user(data, phys, off, tag, bufp, n, acc) ==
    LET ok == Accessible(bufp, n, acc)
    IN  [data EXCEPT ![phys] =
            [j \in InBlock |->
                IF j >= off /\ j < off + ok THEN UserBuf(tag, bufp + (j - off))
                ELSE IF j >= off + ok /\ j < off + n THEN 0
                ELSE @[j]]]

\* The size follows the cursor unconditionally.
NewSize_unconditional(pos, size) == pos

\* if (*ppos > osfs_inode->i_size) osfs_inode->i_size = *ppos
NewSize(pos, size) == IF pos > size THEN pos ELSE size

\* The count is returned even when nothing was written.
ShortOrError_never_error(bytes_written) == bytes_written

\* The error is returned even after some segments were written.
ShortOrError_always_error(bytes_written) == ENOSPC

\* if (bytes_written > 0) return bytes_written; return -ENOSPC / ret
ShortOrError(bytes_written) ==
    IF bytes_written > 0 THEN bytes_written ELSE ENOSPC

\* The count is not incremented.
CountBlock_forgotten(n) == n

\* osfs_inode->i_blocks++
CountBlock(n) == n + 1

\* ------------------------------------------------------------ multi write
\* Every slot is taken for unallocated.
Unallocated_always(slot) == TRUE

\* if (osfs_inode->blocks[block_index] == 0)
Unallocated(slot) == slot = 0

\* The while loop of osfs_write (lab4_bonus). s carries the inode, the
\* arena, the bitmap and the locals; the result has ret and touch set.
RECURSIVE osfs_write_loop(_, _, _)
osfs_write_loop(s, tag, acc) ==
    IF ~(s.len > 0)
    THEN [s EXCEPT !.ret = s.bytes_written, !.touch = 1, !.exit = "done"]
    ELSE
      LET block_index == BlockIndex(s.ppos)
          offset_in_block == OffsetInBlock(s.ppos)
          copy_len == CopyLen(s.ppos, s.len)
      IN
      IF block_index >= s.max_blocks
      THEN [s EXCEPT !.ret = ShortOrError(s.bytes_written), !.exit = "ceiling"]
      ELSE
        LET need == Unallocated(s.blocks[block_index])
            got == osfs_alloc_data_block(s.bitmap)
        IN
        IF need /\ got = 0
        THEN [s EXCEPT !.ret = ShortOrError(s.bytes_written), !.exit = "nospace"]
        ELSE
          LET a == IF need
                   THEN [s EXCEPT !.blocks[block_index] = got,
                                  !.bitmap = @ \cup {got},
                                  !.i_blocks = CountBlock(@),
                                  !.allocs = @ + 1,
                                  !.data = memset(@, got)]
                   ELSE s
              phys == a.blocks[block_index]
              c == [a EXCEPT !.data = copy_from_user(@, phys, offset_in_block,
                                                     tag, s.bufp, copy_len, acc),
                             !.segs = @ + 1]
          IN
          IF Accessible(s.bufp, copy_len, acc) # copy_len
          THEN [c EXCEPT !.ret = EFAULT, !.exit = "fault"]
          ELSE osfs_write_loop(
                 [c EXCEPT !.bufp = @ + copy_len,
                           !.ppos = @ + copy_len,
                           !.len = @ - copy_len,
                           !.bytes_written = @ + copy_len,
                           !.i_size = NewSize(s.ppos + copy_len, @)],
                 tag, acc)

\* The locals of a call on the current file.
Locals(pos, len) ==
    [blocks |-> blocks, i_block |-> i_block, i_blocks |-> i_blocks,
     i_size |-> i_size, data |-> data_blocks, bitmap |-> block_bitmap,
     ppos |-> pos, len |-> len, bufp |-> 0, bytes_written |-> 0,
     ret |-> 0, touch |-> 0, exit |-> "none",
     segs |-> 0, allocs |-> 0,
     max_blocks |-> MAX_BLOCKS_PER_FILE]

\* osfs_write of lab4_bonus
osfs_write_multi(pos, len, tag, acc) == osfs_write_loop(Locals(pos, len), tag, acc)

\* ------------------------------------------------------------ single write
\* if (*ppos + len > BLOCK_SIZE) len = BLOCK_SIZE - *ppos
ClampToBlock(pos, len) == IF pos + len > BLOCK_SIZE THEN BLOCK_SIZE - pos ELSE len

\* osfs_write of lab4
osfs_write_single(pos, len, tag, acc) ==
    LET s == Locals(pos, len)
        need == s.i_blocks = 0
        got == osfs_alloc_data_block(s.bitmap)
    IN
    IF need /\ got = 0
    THEN [s EXCEPT !.ret = ENOSPC, !.exit = "nospace"]
    ELSE
      LET a == IF need
               THEN [s EXCEPT !.i_block = got,
                              !.bitmap = @ \cup {got},
                              !.i_blocks = 1,
                              !.allocs = @ + 1,
                              !.data = memset(@, got)]
               ELSE s
      IN
      IF pos >= BLOCK_SIZE
      THEN [a EXCEPT !.ret = ENOSPC, !.exit = "ceiling"]
      ELSE
        LET n == ClampToBlock(pos, len)
            c == [a EXCEPT !.data = copy_from_user(@, a.i_block, pos, tag, 0, n, acc),
                           !.segs = @ + 1]
        IN
        IF Accessible(0, n, acc) # n
        THEN [c EXCEPT !.ret = EFAULT, !.exit = "fault"]
        ELSE [c EXCEPT !.ppos = pos + n,
                       !.exit = "done",
                       !.len = n,
                       !.bytes_written = n,
                       !.i_size = NewSize(pos + n, @),
                       !.touch = 1,
                       !.ret = n]

\* ------------------------------------------------------------ reads
\* The length is not clamped to the file size.
ClampToSize_missing(pos, len, size) == len

\* if (*ppos + len > i_size) len = i_size - *ppos
ClampToSize(pos, len, size) == IF pos + len > size THEN size - pos ELSE len

\* The byte at data_blocks + addr: the arena is one flat region, and
\* what lies behind its last block is not the file system's.
ArenaByte(data, addr) ==
    IF (addr \div BLOCK_SIZE) \in Phys
    THEN data[addr \div BLOCK_SIZE][addr % BLOCK_SIZE]
    ELSE 255

\* copy_to_user(buf, data_block, copy_len) with
\* data_block = data_blocks + phys * BLOCK_SIZE + off: the bytes that
\* reach the caller's buffer, appended to what it already holds.
copy_to_user(out, data, phys, off, bufp, n, acc) ==
    out \o [k \in 1 .. Accessible(bufp, n, acc) |->
              ArenaByte(data, phys * BLOCK_SIZE + off + k - 1)]

\* The locals of a read call.
ReadLocals(pos, len) ==
    [blocks |-> blocks, i_size |-> i_size, data |-> data_blocks,
     max_blocks |-> MAX_BLOCKS_PER_FILE,
     ppos |-> pos, len |-> len, bufp |-> 0, bytes_read |-> 0,
     out |-> <<>>, ret |-> 0, segs |-> 0]

\* The while loop of osfs_read (lab4_bonus). oob is the value an
\* out-of-bounds read of blocks[] yields.
RECURSIVE osfs_read_loop(_, _, _)
osfs_read_loop(r, acc, oob) ==
    IF ~(r.len > 0)
    THEN [r EXCEPT !.ret = r.bytes_read]
    ELSE
      LET block_index == BlockIndex(r.ppos)
          offset_in_block == OffsetInBlock(r.ppos)
          copy_len == CopyLen(r.ppos, r.len)
          phy_block_no == IF block_index < r.max_blocks
                          THEN r.blocks[block_index] ELSE oob
          c == [r EXCEPT !.out = copy_to_user(@, r.data, phy_block_no,
                                              offset_in_block, r.bufp, copy_len, acc),
                         !.segs = @ + 1]
      IN
      IF Accessible(r.bufp, copy_len, acc) # copy_len
      THEN [c EXCEPT !.ret = EFAULT]
      ELSE osfs_read_loop(
             [c EXCEPT !.bufp = @ + copy_len,
                       !.ppos = @ + copy_len,
                       !.len = @ - copy_len,
                       !.bytes_read = @ + copy_len],
             acc, oob)

\* osfs_read of lab4_bonus on the file and locals r
osfs_read_from(r, acc, oob) ==
    IF r.ppos >= r.i_size
    THEN r
    ELSE osfs_read_loop([r EXCEPT !.len = ClampToSize(r.ppos, r.len, r.i_size)],
                        acc, oob)

\* osfs_read of lab4_bonus
osfs_read_multi(pos, len, acc, oob) ==
    osfs_read_from(ReadLocals(pos, len), acc, oob)

\* osfs_read of lab4
osfs_read_single(pos, len, acc) ==
    IF i_blocks = 0
    THEN ReadLocals(pos, len)
    ELSE IF pos >= i_size
    THEN ReadLocals(pos, len)
    ELSE
      LET n == ClampToSize(pos, len, i_size)
          r == ReadLocals(pos, n)
          c == [r EXCEPT !.out = copy_to_user(@, data_blocks, i_block, pos, 0, n, acc),
                         !.segs = @ + 1]
      IN
      IF Accessible(0, n, acc) # n
      THEN [c EXCEPT !.ret = EFAULT]
      ELSE [c EXCEPT !.ppos = pos + n, !.bytes_read = n, !.ret = n]

\* True when the read loop indexes blocks[] out of bounds.
RECURSIVE ReadsOutOfBounds(_, _, _)
ReadsOutOfBounds(pos, len, max_blocks) ==
    /\ len > 0
    /\ \/ BlockIndex(pos) >= max_blocks
       \/ ReadsOutOfBounds(pos + CopyLen(pos, len), len - CopyLen(pos, len),
                           max_blocks)

\* ------------------------------------------------------------ state
Pre == [blocks |-> blocks, i_block |-> i_block, i_blocks |-> i_blocks,
        i_size |-> i_size, bitmap |-> block_bitmap, data |-> data_blocks]

\* What a read remembers of the call before it.
Prior == [op |-> last.op, pos |-> last.pos, len |-> last.len,
          tag |-> last.tag, ret |-> last.ret,
          fresh |-> last.pre.i_blocks = 0 /\ last.pre.i_size = 0]

NoCall == [op |-> "none", pos |-> 0, len |-> 0, tag |-> 0, acc |-> 0,
           ret |-> 0, bytes |-> 0, touch |-> 0, out |-> <<>>,
           exit |-> "none", retry |-> FALSE,
           again |-> FALSE, first |-> <<>>, segs |-> 0, allocs |-> 0,
           prior |-> [op |-> "none", pos |-> 0, len |-> 0, tag |-> 0,
                      ret |-> 0, fresh |-> TRUE],
           pre |-> [blocks |-> [i \in Slots |-> 0], i_block |-> 0,
                    i_blocks |-> 0, i_size |-> 0, bitmap |-> {},
                    data |-> [p \in Phys |-> Garbage]]]

\* The twin and the concurrent writers are not running.
NoTwin == [on |-> FALSE]
NoConc == [on |-> FALSE]

\* Blocks other files hold when the file is created.
InitBitmaps == { {}, 1 .. (DATA_BLOCK_COUNT - 2) }

Init ==
    /\ variant \in {"single", "multi"}
    /\ blocks = [i \in Slots |-> 0]
    /\ i_block = 0
    /\ i_blocks = 0
    /\ i_size = 0
    /\ data_blocks = [p \in Phys |-> Garbage]
    /\ block_bitmap \in InitBitmaps
    /\ ppos = 0
    /\ touches = 0
    /\ calls = 0
    /\ last = [NoCall EXCEPT !.pre.bitmap = block_bitmap]
    /\ twin = NoTwin
    /\ conc = NoConc

\* Cursor values and lengths the caller uses.
Positions ==
    {0, BLOCK_SIZE - 5, 2 * BLOCK_SIZE + 1, CAPACITY,
     UINT32_RANGE * BLOCK_SIZE}
Lengths == {0, 1, BLOCK_SIZE + 10, CAPACITY}
Tags == {0, 1}
\* Accessible prefixes of the caller's buffer: all of it, or (for the
\* pattern-0 buffer) nothing or one block's worth.
Access(len, tag) == {len} \cup {a \in {0, BLOCK_SIZE} : a < len /\ tag = 0}

\* What is left of the caller's request when the last call was a short
\* write.
Remainder ==
    IF last.op = "write" /\ last.ret > 0 /\ last.ret < last.len
    THEN {last.len - last.ret} ELSE {}

\* The caller writes the remainder of a short write at the cursor the
\* short write left.
IsRetry(pos, len) == pos = ppos /\ len \in Remainder

\* Lengths of the write requests at cursor pos.
WriteLengths(pos) == Lengths \cup (IF pos = ppos THEN Remainder ELSE {})

WriteRecord(pos, len, tag, acc, r) ==
    [op |-> "write", pos |-> pos, len |-> len, tag |-> tag,
     acc |-> acc, ret |-> r.ret, bytes |-> r.bytes_written,
     touch |-> r.touch, out |-> <<>>, exit |-> r.exit,
     retry |-> IsRetry(pos, len),
     again |-> FALSE, first |-> <<>>,
     segs |-> r.segs, allocs |-> r.allocs,
     prior |-> NoCall.prior, pre |-> Pre]

ReadRecord(pos, len, acc, r) ==
    [op |-> "read", pos |-> pos, len |-> len, tag |-> 0,
     acc |-> acc, ret |-> r.ret, bytes |-> r.bytes_read,
     touch |-> 0, out |-> r.out, exit |-> "none", retry |-> FALSE,
     again |-> FALSE, first |-> <<>>,
     segs |-> r.segs, allocs |-> 0,
     prior |-> Prior,
     pre |-> Pre]

WriteMulti(pos, len, tag, acc) ==
    /\ variant = "multi"
    /\ calls < MaxCalls
    /\ LET r == osfs_write_multi(pos, len, tag, acc)
       IN  /\ blocks' = r.blocks
           /\ i_blocks' = r.i_blocks
           /\ i_size' = r.i_size
           /\ data_blocks' = r.data
           /\ block_bitmap' = r.bitmap
           /\ ppos' = r.ppos
           /\ touches' = touches + r.touch
           /\ last' = WriteRecord(pos, len, tag, acc, r)
    /\ calls' = calls + 1
    /\ UNCHANGED <<variant, i_block>>

WriteSingle(pos, len, tag, acc) ==
    /\ variant = "single"
    /\ calls < MaxCalls
    /\ LET r == osfs_write_single(pos, len, tag, acc)
       IN  /\ i_block' = r.i_block
           /\ i_blocks' = r.i_blocks
           /\ i_size' = r.i_size
           /\ data_blocks' = r.data
           /\ block_bitmap' = r.bitmap
           /\ ppos' = r.ppos
           /\ touches' = touches + r.touch
           /\ last' = WriteRecord(pos, len, tag, acc, r)
    /\ calls' = calls + 1
    /\ UNCHANGED <<variant, blocks>>

ReadMulti(pos, len, acc, oob) ==
    /\ variant = "multi"
    /\ calls < MaxCalls
    /\ LET r == osfs_read_multi(pos, len, acc, oob)
       IN  /\ ppos' = r.ppos
           /\ last' = ReadRecord(pos, len, acc, r)
    /\ calls' = calls + 1
    /\ UNCHANGED <<variant, blocks, i_block, i_blocks, i_size, data_blocks,
                   block_bitmap, touches>>

ReadSingle(pos, len, acc) ==
    /\ variant = "single"
    /\ calls < MaxCalls
    /\ LET r == osfs_read_single(pos, len, acc)
       IN  /\ ppos' = r.ppos
           /\ last' = ReadRecord(pos, len, acc, r)
    /\ calls' = calls + 1
    /\ UNCHANGED <<variant, blocks, i_block, i_blocks, i_size, data_blocks,
                   block_bitmap, touches>>

\* The caller reads the range of the last read once more, into the same
\* buffer, with no call in between; the record keeps the bytes of the
\* first read.
Reread(oob) ==
    /\ last.op = "read"
    /\ ~last.again
    /\ calls <= MaxCalls
    /\ LET r == IF variant = "single"
                THEN osfs_read_single(last.pos, last.len, last.acc)
                ELSE osfs_read_multi(last.pos, last.len, last.acc, oob)
       IN  /\ ppos' = r.ppos
           /\ last' = [last EXCEPT !.ret = r.ret, !.bytes = r.bytes_read,
                                   !.out = r.out, !.again = TRUE,
                                   !.segs = r.segs,
                                   !.first = last.out]
    /\ UNCHANGED <<variant, blocks, i_block, i_blocks, i_size, data_blocks,
                   block_bitmap, touches, calls>>

\* The value an out-of-bounds read of blocks[] can yield: any block
\* number when the call reads out of bounds, irrelevant otherwise.
OobValues(pos, len) ==
    IF pos < i_size /\ ReadsOutOfBounds(pos, ClampToSize(pos, len, i_size),
                                        MAX_BLOCKS_PER_FILE)
    THEN Phys ELSE {0}

Next ==
    \/ \E pos \in Positions \cup {ppos}, tag \in Tags :
          \E len \in WriteLengths(pos) :
             \E acc \in Access(len, tag) :
                WriteMulti(pos, len, tag, acc) /\ UNCHANGED <<twin, conc>>
    \/ \E pos \in Positions \cup {ppos}, tag \in Tags :
          \E len \in WriteLengths(pos) :
             \E acc \in Access(len, tag) :
                WriteSingle(pos, len, tag, acc) /\ UNCHANGED <<twin, conc>>
    \/ \E pos \in Positions \cup {ppos}, len \in Lengths :
          \E acc \in Access(len, 0), oob \in OobValues(pos, len) :
             ReadMulti(pos, len, acc, oob) /\ UNCHANGED <<twin, conc>>
    \/ \E pos \in Positions \cup {ppos}, len \in Lengths :
          \E acc \in Access(len, 0) :
             ReadSingle(pos, len, acc) /\ UNCHANGED <<twin, conc>>

Spec == Init /\ [][Next]_vars

\* ------------------------------------------------------------ re-reads
\* Calls of a caller that reads a range twice: whole-buffer writes and
\* reads, and the repetition of the last read.
RereadLengths == {1, BLOCK_SIZE + 10}

NextReread ==
    \/ \E pos \in Positions, len \in RereadLengths :
          WriteMulti(pos, len, 0, len) /\ UNCHANGED <<twin, conc>>
    \/ \E pos \in Positions, len \in RereadLengths :
          WriteSingle(pos, len, 0, len) /\ UNCHANGED <<twin, conc>>
    \/ \E pos \in Positions, len \in Lengths :
          \E acc \in Access(len, 0), oob \in OobValues(pos, len) :
             ReadMulti(pos, len, acc, oob) /\ UNCHANGED <<twin, conc>>
    \/ \E pos \in Positions, len \in Lengths :
          \E acc \in Access(len, 0) :
             ReadSingle(pos, len, acc) /\ UNCHANGED <<twin, conc>>
    \/ \E oob \in OobValues(last.pos, last.len) :
          Reread(oob) /\ UNCHANGED <<twin, conc>>

SpecReread == Init /\ [][NextReread]_vars

\* ------------------------------------------------------------ twin run
\* The single-block code (lab4) and the multi-block code (lab4_bonus)
\* with MAX_BLOCKS_PER_FILE = 1 receive the same calls on two files
\* that start empty, each in an arena of its own with the same bitmap.
TwinFile(bitmap) ==
    [on |-> TRUE, blocks |-> [i \in Slots |-> 0], i_blocks |-> 0,
     i_size |-> 0, data |-> [p \in Phys |-> Garbage], bitmap |-> bitmap,
     ppos |-> 0, touches |-> 0, ret |-> 0, out |-> <<>>]

InitTwin ==
    /\ variant = "single"
    /\ blocks = [i \in Slots |-> 0]
    /\ i_block = 0
    /\ i_blocks = 0
    /\ i_size = 0
    /\ data_blocks = [p \in Phys |-> Garbage]
    /\ block_bitmap \in InitBitmaps
    /\ ppos = 0
    /\ touches = 0
    /\ calls = 0
    /\ last = [NoCall EXCEPT !.pre.bitmap = block_bitmap]
    /\ twin = TwinFile(block_bitmap)
    /\ conc = NoConc

\* The locals of osfs_write (lab4_bonus) on the twin file.
TwinLocals(pos, len) ==
    [Locals(pos, len) EXCEPT !.blocks = twin.blocks,
                             !.i_block = 0,
                             !.i_blocks = twin.i_blocks,
                             !.i_size = twin.i_size,
                             !.data = twin.data,
                             !.bitmap = twin.bitmap,
                             !.max_blocks = 1]

\* The locals of osfs_read (lab4_bonus) on the twin file.
TwinReadLocals(pos, len) ==
    [ReadLocals(pos, len) EXCEPT !.blocks = twin.blocks,
                                 !.i_size = twin.i_size,
                                 !.data = twin.data,
                                 !.max_blocks = 1]

TwinWrite(pos, len, tag, acc) ==
    /\ WriteSingle(pos, len, tag, acc)
    /\ LET r == osfs_write_loop(TwinLocals(pos, len), tag, acc)
       IN  twin' = [twin EXCEPT !.blocks = r.blocks,
                                !.i_blocks = r.i_blocks,
                                !.i_size = r.i_size,
                                !.data = r.data,
                                !.bitmap = r.bitmap,
                                !.ppos = r.ppos,
                                !.touches = @ + r.touch,
                                !.ret = r.ret,
                                !.out = <<>>]
    /\ UNCHANGED conc

TwinRead(pos, len, acc, oob) ==
    /\ ReadSingle(pos, len, acc)
    /\ LET r == osfs_read_from(TwinReadLocals(pos, len), acc, oob)
       IN  twin' = [twin EXCEPT !.ppos = r.ppos,
                                !.ret = r.ret,
                                !.out = r.out]
    /\ UNCHANGED conc

\* What an out-of-bounds read of the twin's blocks[] can yield.
TwinOobValues(pos, len) ==
    IF pos < twin.i_size
       /\ ReadsOutOfBounds(pos, ClampToSize(pos, len, twin.i_size), 1)
    THEN Phys ELSE {0}

NextTwin ==
    \/ \E pos \in Positions \cup {ppos}, tag \in Tags :
          \E len \in WriteLengths(pos) :
             \E acc \in Access(len, tag) : TwinWrite(pos, len, tag, acc)
    \/ \E pos \in Positions \cup {ppos}, len \in Lengths :
          \E acc \in Access(len, 0), oob \in TwinOobValues(pos, len) :
             TwinRead(pos, len, acc, oob)

SpecTwin == InitTwin /\ [][NextTwin]_vars

\* ------------------------------------------------------------ two writers
\* Two files of one file system, one writer each, sharing the arena and
\* the allocator. A write call proceeds one step of osfs_write at a time;
\* osfs_alloc_data_block is one step (it runs under the allocation lock).
Files == {1, 2}
\* Write calls per file in one behaviour.
MaxConcCalls == 2

ConcPositions == {0, BLOCK_SIZE - 5}
ConcLengths == {1, BLOCK_SIZE + 10}

ConcLocals(pos, len) == [ppos |-> pos, len |-> len, bytes_written |-> 0]

InitConc ==
    /\ variant \in {"single", "multi"}
    /\ blocks = [i \in Slots |-> 0]
    /\ i_block = 0
    /\ i_blocks = 0
    /\ i_size = 0
    /\ data_blocks = [p \in Phys |-> Garbage]
    /\ block_bitmap = {}
    /\ ppos = 0
    /\ touches = 0
    /\ calls = 0
    /\ last = NoCall
    /\ twin = NoTwin
    /\ \E bitmap \in InitBitmaps :
         conc = [on |-> TRUE,
                 blocks |-> [f \in Files |-> [i \in Slots |-> 0]],
                 i_blocks |-> [f \in Files |-> 0],
                 i_size |-> [f \in Files |-> 0],
                 bitmap |-> bitmap,
                 pc |-> [f \in Files |-> "idle"],
                 loc |-> [f \in Files |-> ConcLocals(0, 0)],
                 ret |-> [f \in Files |-> 0],
                 ncalls |-> [f \in Files |-> 0],
                 touched |-> [file |-> 0, phys |-> 0]]

\* The slot of file f the current segment uses: blocks[block_index], or
\* the one i_block of the single-block file.
ConcSlot(f) ==
    IF variant = "single" THEN 0 ELSE BlockIndex(conc.loc[f].ppos)

\* The block the memset writes: the logical index is taken for the
\* physical block number.
ZeroTarget_logical(f) == ConcSlot(f) + 1

\* The block the memset writes:
\* data_blocks + osfs_inode->blocks[block_index] * BLOCK_SIZE
ZeroTarget(f) == conc.blocks[f][ConcSlot(f)]

\* The block copy_from_user writes:
\* data_blocks + osfs_inode->blocks[block_index] * BLOCK_SIZE + offset_in_block
CopyTarget(f) == conc.blocks[f][ConcSlot(f)]

\* The call of file f returns r.
ConcReturn(f, r) ==
    [conc EXCEPT !.pc[f] = "idle", !.ret[f] = r]

\* write() is entered on file f.
ConcBegin(f, pos, len) ==
    /\ conc.pc[f] = "idle"
    /\ conc.ncalls[f] < MaxConcCalls
    /\ conc' = [conc EXCEPT !.pc[f] = "check",
                            !.ncalls[f] = @ + 1,
                            !.loc[f] = ConcLocals(pos, len)]

\* The head of the loop, the capacity check and the test of the slot
\* (lab4_bonus); the test of i_blocks (lab4).
ConcCheck(f) ==
    /\ conc.pc[f] = "check"
    /\ LET l == conc.loc[f]
       IN  conc' =
             IF variant = "single"
             THEN [conc EXCEPT !.pc[f] = IF conc.i_blocks[f] = 0
                                         THEN "alloc" ELSE "bound"]
             ELSE IF ~(l.len > 0)
             THEN ConcReturn(f, l.bytes_written)
             ELSE IF BlockIndex(l.ppos) >= MAX_BLOCKS_PER_FILE
             THEN ConcReturn(f, ShortOrError(l.bytes_written))
             ELSE [conc EXCEPT !.pc[f] =
                     IF conc.blocks[f][BlockIndex(l.ppos)] = 0
                     THEN "alloc" ELSE "copy"]

\* osfs_alloc_data_block(sb_info, &slot)
ConcAlloc(f) ==
    /\ conc.pc[f] = "alloc"
    /\ LET got == osfs_alloc_data_block(conc.bitmap)
       IN  conc' =
             IF got = 0
             THEN ConcReturn(f, IF variant = "single" THEN ENOSPC
                                ELSE ShortOrError(conc.loc[f].bytes_written))
             ELSE [conc EXCEPT !.blocks[f][ConcSlot(f)] = got,
                               !.bitmap = @ \cup {got},
                               !.pc[f] = "zero"]

\* i_blocks++ (i_blocks = 1) and the memset of the new block
ConcZero(f) ==
    /\ conc.pc[f] = "zero"
    /\ conc' = [conc EXCEPT !.i_blocks[f] = IF variant = "single" THEN 1
                                            ELSE CountBlock(@),
                            !.touched = [file |-> f, phys |-> ZeroTarget(f)],
                            !.pc[f] = IF variant = "single" THEN "bound"
                                      ELSE "copy"]

\* lab4: the position check and the clamp of the length
ConcBound(f) ==
    /\ conc.pc[f] = "bound"
    /\ LET l == conc.loc[f]
       IN  conc' =
             IF l.ppos >= BLOCK_SIZE
             THEN ConcReturn(f, ENOSPC)
             ELSE [conc EXCEPT !.loc[f].len = ClampToBlock(l.ppos, l.len),
                               !.pc[f] = "copy"]

\* copy_from_user and the bookkeeping after it
ConcCopy(f, ok) ==
    /\ conc.pc[f] = "copy"
    /\ LET l == conc.loc[f]
           n == IF variant = "single" THEN l.len ELSE CopyLen(l.ppos, l.len)
           t == [conc EXCEPT !.touched = [file |-> f, phys |-> CopyTarget(f)]]
       IN  conc' =
             IF ~ok
             THEN [t EXCEPT !.pc[f] = "idle", !.ret[f] = EFAULT]
             ELSE [t EXCEPT !.loc[f] = [ppos |-> l.ppos + n,
                                        len |-> l.len - n,
                                        bytes_written |-> l.bytes_written + n],
                            !.i_size[f] = NewSize(l.ppos + n, @),
                            !.ret[f] = IF variant = "single" THEN n ELSE @,
                            !.pc[f] = IF variant = "single" THEN "idle"
                                      ELSE "check"]

ConcFrame ==
    UNCHANGED <<variant, blocks, i_block, i_blocks, i_size, data_blocks,
                block_bitmap, ppos, touches, calls, last, twin>>

NextConc ==
    \/ \E f \in Files, pos \in ConcPositions, len \in ConcLengths :
          ConcBegin(f, pos, len) /\ ConcFrame
    \/ \E f \in Files : ConcCheck(f) /\ ConcFrame
    \/ \E f \in Files : ConcAlloc(f) /\ ConcFrame
    \/ \E f \in Files : ConcZero(f) /\ ConcFrame
    \/ \E f \in Files : ConcBound(f) /\ ConcFrame
    \/ \E f \in Files, ok \in BOOLEAN : ConcCopy(f, ok) /\ ConcFrame

SpecConc == InitConc /\ [][NextConc]_vars

\* ------------------------------------------------------------ properties
IsWrite == last.op = "write"
IsRead == last.op = "read"

\* N * BLOCK_SIZE of the variant under test.
CapacityOf(v) == IF v = "single" THEN BLOCK_SIZE ELSE CAPACITY

\* ceil(size / BLOCK_SIZE)
CeilBlocks(size) == (size + BLOCK_SIZE - 1) \div BLOCK_SIZE

AllocatedSlots(b) == {i \in Slots : b[i] # 0}

\* The first k bytes of the write buffer with pattern tag.
Written(tag, k) == [j \in 1 .. k |-> UserBuf(tag, j - 1)]

Zeros(k) == [j \in 1 .. k |-> 0]

\* The extent map is as it was before the last call.
ExtentUnchanged ==
    /\ blocks = last.pre.blocks
    /\ i_block = last.pre.i_block
    /\ i_blocks = last.pre.i_blocks
    /\ i_size = last.pre.i_size

\* C1: between calls, every logical block index below
\* ceil(logical_size / BLOCK_SIZE) has an allocated slot.
C1_NoHole ==
    /\ variant = "multi" =>
         \A i \in Slots : i < CeilBlocks(i_size) => blocks[i] # 0
    /\ variant = "single" => (i_size > 0 => i_blocks = 1 /\ i_block # 0)

\* The read that follows a complete write of the same range.
ReadBack ==
    /\ IsRead
    /\ last.prior.op = "write"
    /\ last.prior.pos = last.pos
    /\ last.prior.len = last.len
    /\ last.prior.ret = last.len
    /\ last.pos + last.len <= CapacityOf(variant)
    /\ last.ret # EFAULT

\* C2: a write of k bytes at offset o (o + k <= N * BLOCK_SIZE) followed
\* directly by a read of k bytes at offset o returns k bytes, the bytes
\* written.
C2_RoundTrip ==
    ReadBack => /\ last.ret = last.len
                /\ last.out = Written(last.prior.tag, last.len)

C2_Witness ==
    /\ ReadBack
    /\ variant = "multi"
    /\ last.pos = BLOCK_SIZE - 5
    /\ last.len = BLOCK_SIZE + 10
    /\ last.ret = last.len

\* C3: a write starting at or beyond N * BLOCK_SIZE returns
\* CapacityExhausted, writes nothing and leaves the extent map unchanged,
\* in both variants and for any prior file state.
C3_CapacityBoundary ==
    (IsWrite /\ last.pos >= CapacityOf(variant)) =>
        /\ last.ret = ENOSPC
        /\ last.bytes = 0
        /\ ExtentUnchanged

\* The complete write of BLOCK_SIZE + 10 bytes at BLOCK_SIZE - 5 on an
\* empty multi-block file.
CrossBlockWrite ==
    /\ variant = "multi"
    /\ IsWrite
    /\ last.pos = BLOCK_SIZE - 5
    /\ last.len = BLOCK_SIZE + 10
    /\ last.ret = last.len
    /\ last.pre.i_blocks = 0
    /\ last.pre.i_size = 0

\* The read from offset 0 of the whole range after that write.
CrossBlockRead ==
    /\ variant = "multi"
    /\ IsRead
    /\ last.prior.op = "write"
    /\ last.prior.fresh
    /\ last.prior.pos = BLOCK_SIZE - 5
    /\ last.prior.len = BLOCK_SIZE + 10
    /\ last.prior.ret = last.prior.len
    /\ last.pos = 0
    /\ last.len >= 2 * BLOCK_SIZE + 5
    /\ last.ret # EFAULT

CrossBlockReadBack ==
    CrossBlockRead =>
        /\ last.ret = 2 * BLOCK_SIZE + 5
        /\ last.out = Zeros(BLOCK_SIZE - 5)
                        \o Written(last.prior.tag, BLOCK_SIZE + 10)

\* C4 as stated: the cross-block write allocates exactly two blocks, and
\* the read of the range from offset 0 gives zeros, then the bytes written.
C4_TwoBlocks ==
    /\ CrossBlockWrite =>
         /\ Cardinality(AllocatedSlots(blocks)) = 2
         /\ i_blocks = 2
    /\ CrossBlockReadBack

\* C4 (amended): the write of BLOCK_SIZE + 10 bytes at BLOCK_SIZE - 5 on
\* an empty file touches logical blocks 0, 1 and 2 and allocates exactly
\* those three; the read of the range from offset 0 gives BLOCK_SIZE - 5
\* zero bytes, then the bytes written.
C4_CrossBlock ==
    /\ CrossBlockWrite =>
         /\ AllocatedSlots(blocks) = {0, 1, 2}
         /\ i_blocks = 3
         /\ i_size = 2 * BLOCK_SIZE + 5
    /\ CrossBlockReadBack

C4_Witness ==
    /\ CrossBlockRead
    /\ last.ret = 2 * BLOCK_SIZE + 5

\* Slots the segments [pos, pos + n) cover.
SlotsOf(pos, n) == {BlockIndex(q) : q \in pos .. (pos + n - 1)}

\* C5: allocator exhaustion on the first segment returns CapacityExhausted
\* and changes nothing; on a later segment the call returns the bytes of
\* the completed segments, exactly their slots are newly allocated, and
\* logical_size is max(old size, offset + returned count).
C5_Exhaustion ==
    (IsWrite /\ last.exit = "nospace") =>
        IF last.bytes = 0
        THEN /\ last.ret = ENOSPC
             /\ ExtentUnchanged
        ELSE /\ variant = "multi"
             /\ last.ret = last.bytes
             /\ last.ret < last.len
             /\ OffsetInBlock(last.pos + last.ret) = 0
             /\ blocks[BlockIndex(last.pos + last.ret)] = 0
             /\ AllocatedSlots(blocks) \ AllocatedSlots(last.pre.blocks)
                  = SlotsOf(last.pos, last.ret) \ AllocatedSlots(last.pre.blocks)
             /\ \A i \in AllocatedSlots(last.pre.blocks) :
                  blocks[i] = last.pre.blocks[i]
             /\ i_blocks = Cardinality(AllocatedSlots(blocks))
             /\ i_size = Max(last.pre.i_size, last.pos + last.ret)

C5_Witness ==
    /\ IsWrite
    /\ last.exit = "nospace"
    /\ last.bytes > BLOCK_SIZE
    /\ AllocatedSlots(blocks) # AllocatedSlots(last.pre.blocks)

\* C6: a write call runs the metadata update exactly once when it returns
\* a byte count greater than zero, and not at all when it wrote nothing.
C6_MetadataOnce ==
    IsWrite => last.touch = (IF last.ret > 0 THEN 1 ELSE 0)

\* C7 as stated: after any write call logical_size is at least what it
\* was and equals max(old size, offset + bytes_written).
C7_MaxOfOffsetPlusWritten ==
    IsWrite =>
        /\ i_size >= last.pre.i_size
        /\ i_size = Max(last.pre.i_size, last.pos + last.bytes)

\* C7 (amended): after any write call logical_size is at least what it
\* was, and it equals max(old size, offset + bytes_written) when the call
\* transferred at least one byte.
C7_MonotonicSize ==
    IsWrite =>
        /\ i_size >= last.pre.i_size
        /\ last.bytes > 0 =>
             i_size = Max(last.pre.i_size, last.pos + last.bytes)

C7_Witness ==
    /\ IsWrite
    /\ last.bytes > 0
    /\ last.pos + last.bytes < last.pre.i_size

\* C8: a read of length L that does not fault returns
\* min(L, max(0, logical_size - offset)) bytes; at or beyond the end of
\* the file that is 0 bytes and no error.
C8_ReadLength ==
    (IsRead /\ last.ret # EFAULT) =>
        /\ last.ret = Min(last.len, Max(0, i_size - last.pos))
        /\ Len(last.out) = last.ret

C8_Witness ==
    /\ IsRead
    /\ last.ret > 0
    /\ last.ret < last.len
    /\ last.pos > 0

\* C9: allocated_count equals the number of non-zero entries of blocks[]
\* in every state, whatever the outcome of the calls so far.
C9_AllocatedCount ==
    /\ variant = "multi" => i_blocks = Cardinality(AllocatedSlots(blocks))
    /\ variant = "single" => i_blocks = (IF i_block # 0 THEN 1 ELSE 0)

C9_Witness ==
    /\ variant = "multi"
    /\ IsWrite
    /\ last.exit = "fault"
    /\ i_blocks > last.pre.i_blocks

\* C10: 0 <= logical_size <= N * BLOCK_SIZE in every state.
C10_SizeBound ==
    /\ 0 <= i_size
    /\ i_size <= CapacityOf(variant)
\* The byte of the multi-block file at file offset q.
FileByte(q) == data_blocks[blocks[BlockIndex(q)]][OffsetInBlock(q)]

\* Slots the last call allocated.
NewSlots == AllocatedSlots(blocks) \ AllocatedSlots(last.pre.blocks)

\* File offsets the faulting segment of the last write reached before
\* the fault (the accessible rest of the caller's buffer).
PartialEnd == last.pos + Max(last.bytes, Min(last.acc, last.len))

\* C11: after a write that ends in a CopyFault, every block recorded in
\* the extent map is a valid allocated block, a block the call allocated
\* holds nothing but zeros and the caller's bytes (it was zero-filled
\* whole before the copy), allocated_count matches the slots, and the
\* bytes of the segments completed before the fault are still there.
C11_FaultLeavesValidMap ==
    (IsWrite /\ last.exit = "fault") =>
        /\ last.ret = EFAULT
        /\ C9_AllocatedCount
        /\ variant = "multi" =>
             /\ \A i \in AllocatedSlots(blocks) :
                  /\ blocks[i] \in 1 .. DATA_BLOCK_COUNT
                  /\ blocks[i] \in block_bitmap
             /\ \A i \in AllocatedSlots(last.pre.blocks) :
                  blocks[i] = last.pre.blocks[i]
             /\ \A i \in NewSlots : \A j \in InBlock :
                  LET covered == {q \in last.pos .. (PartialEnd - 1) :
                                    BlockIndex(q) = i /\ OffsetInBlock(q) = j}
                  IN  data_blocks[blocks[i]][j] =
                        (IF covered = {} THEN 0
                         ELSE UserBuf(last.tag, (CHOOSE q \in covered : TRUE) - last.pos))
             /\ \A q \in last.pos .. (last.pos + last.bytes - 1) :
                  FileByte(q) = UserBuf(last.tag, q - last.pos)
        /\ variant = "single" =>
             /\ i_block \in 1 .. DATA_BLOCK_COUNT
             /\ i_block \in block_bitmap
             /\ last.pre.i_blocks = 0 =>
                  \A j \in InBlock :
                    data_blocks[i_block][j] =
                      (IF j >= last.pos /\ j < PartialEnd
                       THEN UserBuf(last.tag, j - last.pos) ELSE 0)

C11_Witness ==
    /\ variant = "multi"
    /\ IsWrite
    /\ last.exit = "fault"
    /\ last.bytes > 0
    /\ Cardinality(NewSlots) >= 2
\* C12: when a write returned fewer bytes than requested and the caller
\* at once retries the remainder at the advanced cursor, the retry
\* returns CapacityExhausted and writes nothing.
C12_RetryExhausted ==
    (IsWrite /\ last.retry) =>
        /\ last.ret = ENOSPC
        /\ last.bytes = 0
        /\ ExtentUnchanged
        /\ data_blocks = last.pre.data
        /\ block_bitmap = last.pre.bitmap

C12_Witness ==
    /\ variant = "multi"
    /\ IsWrite
    /\ last.retry
    /\ last.pos < CAPACITY
    /\ last.ret = ENOSPC
\* C13: on every sequence of calls the single-block code and the
\* multi-block code configured with one block per file give the same
\* return value, cursor, logical_size, allocation state and metadata
\* updates (and the same bytes on a read).
C13_SingleIsN1 ==
    twin.on =>
        /\ last.ret = twin.ret
        /\ ppos = twin.ppos
        /\ i_size = twin.i_size
        /\ i_blocks = twin.i_blocks
        /\ i_block = twin.blocks[0]
        /\ touches = twin.touches
        /\ IsRead => last.out = twin.out
\* Physical blocks recorded in the extent map of file f.
ConcBlocksOf(f) == {conc.blocks[f][i] : i \in Slots} \ {0}

\* C14: with the allocator atomic and one writer per file, in every
\* interleaving of writes to different files no physical block is in the
\* extent maps of two files, and no zero-fill or copy of a writer goes to
\* a block of another file's extent map.
C14_BlockExclusive ==
    conc.on =>
        /\ \A f \in Files, g \in Files :
             f # g => ConcBlocksOf(f) \cap ConcBlocksOf(g) = {}
        /\ \A g \in Files :
             g # conc.touched.file => conc.touched.phys \notin ConcBlocksOf(g)
        /\ conc.touched.file \in Files =>
             conc.touched.phys \in ConcBlocksOf(conc.touched.file)

C14_Witness ==
    /\ conc.on
    /\ variant = "multi"
    /\ \A f \in Files : Cardinality(ConcBlocksOf(f)) >= 2
    /\ \E f \in Files : conc.pc[f] = "copy"
    /\ \E f \in Files : conc.pc[f] = "zero"
\* The slot the read of file offset q goes through is inside the extent
\* map and holds an allocated block.
ReadsOwnBlock(q) ==
    IF variant = "single"
    THEN i_blocks # 0 /\ i_block # 0
    ELSE BlockIndex(q) < MAX_BLOCKS_PER_FILE /\ blocks[BlockIndex(q)] # 0

\* C15: every byte a read returns comes from a block recorded as
\* allocated in the file's own extent map, never from physical block 0 or
\* an unowned block, and no returned byte is stale arena content (a byte
\* no write to the file covered reads as zero).
C15_NoStaleData ==
    IsRead =>
        \A k \in 1 .. Len(last.out) :
            /\ ReadsOwnBlock(last.pos + k - 1)
            /\ last.out[k] # Garbage[0]
\* The extent map as slots: blocks[] of lab4_bonus, the one i_block of lab4.
SlotMap(b, ib) == IF variant = "single" THEN [i \in {0} |-> ib] ELSE b

\* C16: a slot that holds a non-zero physical index is never changed or
\* cleared by a later write, a write allocates only for slots that are
\* zero (one new block per newly filled slot, taken from the free
\* blocks), and no two slots of the file hold the same non-zero index.
C16_SlotsAppendOnly ==
    LET old == SlotMap(last.pre.blocks, last.pre.i_block)
        new == SlotMap(blocks, i_block)
        fresh == {i \in DOMAIN new : old[i] = 0 /\ new[i] # 0}
    IN  /\ \A i \in DOMAIN new : old[i] # 0 => new[i] = old[i]
        /\ \A i \in DOMAIN new, j \in DOMAIN new :
              (i # j /\ new[i] # 0) => new[i] # new[j]
        /\ \A i \in fresh : new[i] \notin last.pre.bitmap
        /\ block_bitmap = last.pre.bitmap \cup {new[i] : i \in fresh}

C16_Witness ==
    /\ IsWrite
    /\ variant = "multi"
    /\ last.pre.blocks[0] # 0
    /\ last.pos < BLOCK_SIZE
    /\ last.bytes > BLOCK_SIZE
    /\ NewSlots # {}
C18_CursorAccounting ==
    (IsRead \/ IsWrite) =>
        /\ last.ret >= 0 => ppos = last.pos + last.ret
        /\ last.ret < 0 => ppos = last.pos
\* C19: the logical block index write and read use is
\* floor(offset / BLOCK_SIZE) without wrap-around, so a write at an
\* offset >= N*BLOCK_SIZE, also one whose quotient does not fit the index
\* type, is rejected by the capacity check and neither allocates, stores
\* into a slot, copies data nor changes i_size.
C19_NoWrap ==
    (/\ variant = "multi"
     /\ last.len > 0
     /\ IsWrite \/ (IsRead /\ last.pos < i_size)) =>
        /\ BlockIndex(last.pos) = last.pos \div BLOCK_SIZE
        /\ (IsWrite /\ last.pos >= CAPACITY) =>
              /\ last.ret = ENOSPC
              /\ ExtentUnchanged
              /\ data_blocks = last.pre.data
              /\ block_bitmap = last.pre.bitmap
\* Segments of the last call that ran to their end: all of them, or all
\* but the one the copy failed on.
CompletedSegs == IF last.ret = EFAULT THEN last.segs - 1 ELSE last.segs

\* C20: every read and write call ends; each loop iteration returns or
\* transfers at least one byte and shortens what remains, and a write
\* makes at most N allocations and at most N segment copies per call
\* (N = 1 for the single-block file).
C20_BoundedWork ==
    LET n == IF variant = "single" THEN 1 ELSE MAX_BLOCKS_PER_FILE
    IN  (IsRead \/ IsWrite) =>
          /\ CompletedSegs >= 0
          /\ last.bytes <= last.len
          /\ variant = "multi" =>
                /\ last.bytes >= CompletedSegs
                /\ last.segs <= last.len
          /\ IsWrite =>
                /\ last.segs <= n
                /\ last.allocs <= n
                /\ last.allocs = i_blocks - last.pre.i_blocks

C20_Witness ==
    /\ IsWrite
    /\ variant = "multi"
    /\ last.segs >= 3
    /\ last.allocs >= 2
    /\ last.pre.i_blocks >= 1
    /\ last.ret = last.len
====
